---- MODULE Spec2Model ----
(***************************************************************************)
(* DitherCam: a React component that dithers a live camera feed onto a     *)
(* canvas once per display refresh.  The repository holds six variants of  *)
(* the App component; the model carries the variant as a field that never  *)
(* changes and follows, for each variant, its own code.                    *)
(*                                                                         *)
(*   "App"  src/src/App.tsx               sliders, render() inside effect  *)
(*   "P0A"  src/unnamed/part_000:1-205    sliders                          *)
(*   "P0B"  src/unnamed/part_000:207-419  sliders, canvas cleared late     *)
(*   "P1A"  src/unnamed/part_001:1-199    pointer gestures, no clamping    *)
(*   "P1B"  src/unnamed/part_001:201-409  pointer gestures, clamped        *)
(*   "P1C"  src/unnamed/part_001:411-633  sliders, floating panel          *)
(***************************************************************************)
EXTENDS Integers, Sequences, FiniteSets, TLC

VARIABLES
    variant,            \* which App component is mounted
    mounted,            \* FALSE once the component's effect cleanups have run
    ctx2d,              \* canvas.getContext('2d') yields a context (it is the same object on every call)
    display,            \* <<width, height>> of canvas.getBoundingClientRect() / the window, CSS pixels
    gridSize,           \* useState gridSize
    threshold,          \* useState threshold, a rational <<num, den>>
    rafQueue,           \* callbacks scheduled by requestAnimationFrame: [id, gridSize, threshold]
    animationFrameRef,  \* animationFrameRef.current / frameRef.current; 0 is undefined
    ditherCleanup,      \* the dithering effect's last run returned a cleanup function
    canvas,             \* the output surface: [width, height, px]
    video,              \* the <video> element: [srcObject, videoWidth, videoHeight]
    camera,             \* the getUserMedia promise: "pending", "resolved", "rejected"
    track,              \* the stream's tracks: "none", "live", "stopped"
    lastPass,           \* how the last fired tick ended, and the frame it read
    download            \* link.href of the anchor the last action clicked, or "none"

vars == <<variant, mounted, ctx2d, display, gridSize, threshold, rafQueue,
          animationFrameRef, ditherCleanup, canvas, video, camera, track,
          lastPass, download>>

-----------------------------------------------------------------------------
(* Bounds of the model.                                                    *)

\* The display is at most MaxSide CSS pixels wide and high.
MaxSide == 5

\* Pointer coordinates are delivered from PointerReach pixels outside the
\* surface rectangle on every side.
PointerReach == 1

-----------------------------------------------------------------------------
(* Variants.                                                               *)

Variants == {"App", "P0A", "P0B", "P1A", "P1B", "P1C"}

\* Variants whose tick is the useCallback applyDithering (all but App.tsx).
UsesCallback(v) == v # "App"

\* Variants driven by pointer gestures; the others have sliders.
UsesPointer(v) == v \in {"P1A", "P1B"}

-----------------------------------------------------------------------------
(* Rationals <<n, d>>, d > 0, in lowest terms: the threshold is a float in *)
(* the code; every value the model's inputs produce is an exact rational.  *)

Abs(n) == IF n < 0 THEN -n ELSE n

RECURSIVE GCD(_, _)
GCD(a, b) == IF b = 0 THEN a ELSE GCD(b, a % b)

Rat(n, d) ==
    LET g == GCD(Abs(n), d) IN <<n \div g, d \div g>>

RatLess(a, b) == a[1] * b[2] < b[1] * a[2]

RatMax(a, b) == IF RatLess(a, b) THEN b ELSE a

RatMin(a, b) == IF RatLess(a, b) THEN a ELSE b

IntMax(a, b) == IF a < b THEN b ELSE a

IntMin(a, b) == IF a < b THEN a ELSE b

-----------------------------------------------------------------------------
(* Colours and rasters.  A pixel is <<R, G, B, A>>.  A raster is           *)
(* [width, height, px]; px maps the row-major index of every pixel drawn  *)
(* since the raster was last sized to its colour.  A pixel nothing has    *)
(* drawn is transparent.                                                  *)

White == <<255, 255, 255, 255>>

Blue == <<0, 0, 255, 255>>

Black == <<0, 0, 0, 255>>

Transparent == <<0, 0, 0, 0>>

\* A raster of w x h pixels after fillRect(0, 0, w, h) in colour c.
Filled(w, h, c) == [width |-> w, height |-> h, px |-> [p \in 0 .. (w * h - 1) |-> c]]

\* A raster of w x h pixels nothing has drawn on: a new canvas element, or
\* one whose width or height has just been assigned.
Blank(w, h) == [width |-> w, height |-> h, px |-> [p \in {} |-> Transparent]]

\* The colour of pixel p of raster c.
PixelAt(c, p) == IF p \in DOMAIN c.px THEN c.px[p] ELSE Transparent

\* Width and height of a canvas element without width/height attributes.
DefaultCanvasWidth == 300

DefaultCanvasHeight == 150

-----------------------------------------------------------------------------
(* The frame source.                                                       *)

\* Native sizes the video can report once its metadata is known.
NativeSizes == {<<4, 3>>, <<2, 4>>}

\* A frame of one gray level, R = G = B = g, and a frame whose samples vary
\* from pixel to pixel and between the channels.
GrayFrame(g) == [kind |-> "gray", level |-> g]

RampFrame == [kind |-> "ramp", level |-> 0]

\* No frame: what a pass that read none records.
NoFrame == [kind |-> "none", level |-> 0]

\* Frames the camera delivers in the model.
Frames == {GrayFrame(128), RampFrame}

\* The sample of frame f at native pixel (sx, sy).
FrameSample(f, sx, sy) ==
    IF f.kind = "gray" THEN <<f.level, f.level, f.level, 255>>
    ELSE <<(sx * 97 + 30) % 256, (sy * 61 + 200) % 256, ((sx + sy) * 43) % 256, 255>>

\* devicePixelRatio of the window.
devicePixelRatio == 1

\* canvas.width = rect.width * window.devicePixelRatio (and height likewise).
SurfaceSize(d) == <<d[1] * devicePixelRatio, d[2] * devicePixelRatio>>

\* scale = Math.max(canvas.width / videoWidth, canvas.height / videoHeight),
\* as the rational <<num, den>> (not reduced); videoWidth, videoHeight > 0.
CoverScale(cw, ch, vw, vh) ==
    IF cw * vh >= ch * vw THEN <<cw, vw>> ELSE <<ch, vh>>

\* The native pixel that drawImage(video, x, y, scaledWidth, scaledHeight)
\* puts at destination pixel q of an axis: x = (c - v*scale)/2, and the
\* destination q shows the source at (q - x)/scale (nearest sample).
SourceCoord(q, c, v, s) == (2 * q * s[2] - c * s[2] + v * s[1]) \div (2 * s[1])

\* The raster after fillRect(black) and drawImage(video, ...): the frame
\* cover-fitted and centred; black where the frame does not reach, and all
\* black while the video has no dimensions (drawImage then draws nothing).
DrawnFrame(f, vw, vh, cw, ch) ==
    [p \in 0 .. (cw * ch - 1) |->
        IF vw = 0 \/ vh = 0 THEN Black
        ELSE LET s  == CoverScale(cw, ch, vw, vh)
                 sx == SourceCoord(p % cw, cw, vw, s)
                 sy == SourceCoord(p \div cw, ch, vh, s)
             IN  IF sx >= 0 /\ sx < vw /\ sy >= 0 /\ sy < vh
                 THEN FrameSample(f, sx, sy) ELSE Black]

-----------------------------------------------------------------------------
(* The dithering pass.                                                     *)

bayerMatrix == << <<0, 8, 2, 10>>, <<12, 4, 14, 6>>, <<3, 11, 1, 9>>, <<15, 7, 13, 5>> >>

\* bayerMatrix[y % 4][x % 4] for a cell origin (x, y), x, y >= 0.
BayerValue(x, y) == bayerMatrix[(y % 4) + 1][(x % 4) + 1]

\* isWhite = (gray / 255) > (0.5 + (bayerValue / 16 - 0.5) + threshold) with
\* gray = (r + g + b) / 3, cross-multiplied by 765 * 16 * den.
IsWhite(rgb, m, t) ==
    (rgb[1] + rgb[2] + rgb[3]) * 16 * t[2] > 765 * (m * t[2] + 16 * t[1])

\* "if (i >= data.length - 4) continue": present in every variant but P1A.
HasGuard(v) == v # "P1A"

\* The guard's test for the cell whose origin has buffer index i.
GuardSkips(i, len) == i >= len - 4

\* ctx.fillStyle for the cell whose origin is pixel k of a buffer holding n
\* pixels, m its Bayer entry.  Where the buffer holds no pixel k, data[i] is
\* undefined, gray is NaN, and a comparison with NaN is false.
CellColour(data, n, k, m, t) ==
    IF k < n THEN (IF IsWhite(data[k], m, t) THEN White ELSE Blue) ELSE Blue

\* The cell loop over a surface of cw x ch pixels holding `base`, reading
\* the buffer `data` of n pixels (data.length = 4 * n): every cell of side
\* cs is filled white or blue, unless the guard skips it.  cs > 0.
DitherCellsOver(v, base, data, n, cw, ch, cs, t) ==
    [p \in 0 .. (cw * ch - 1) |->
        LET x  == p % cw
            y  == p \div cw
            ox == x - (x % cs)
            oy == y - (y % cs)
            i  == (oy * cw + ox) * 4
        IN  IF HasGuard(v) /\ GuardSkips(i, n * 4) THEN base[p]
            ELSE CellColour(data, n, oy * cw + ox, BayerValue(ox, oy), t)]

\* The cell loop reading what getImageData(0, 0, canvas.width, canvas.height)
\* returns: a buffer of cw * ch pixels.
DitherCells(v, base, data, cw, ch, cs, t) ==
    DitherCellsOver(v, base, data, cw * ch, cw, ch, cs, t)

\* What the main canvas holds when the cell loop starts: App.tsx draws the
\* video onto it, the other variants fill it black.
BaseRaster(v, drawn, cw, ch) ==
    IF v = "App" THEN drawn ELSE [p \in 0 .. (cw * ch - 1) |-> Black]

\* The surface a completed pass leaves.
RenderPass(v, f, vw, vh, cw, ch, cs, t) ==
    LET drawn == DrawnFrame(f, vw, vh, cw, ch)
    IN  [width |-> cw, height |-> ch,
         px |-> DitherCells(v, BaseRaster(v, drawn, cw, ch), drawn, cw, ch, cs, t)]

\* The surface a pass leaves when it returns at "if (!tempCtx) return":
\* the canvas has been resized (which clears it) and, in all but P0B,
\* filled black.
AbortedSurface(v, cw, ch) ==
    IF v = "P0B" THEN Blank(cw, ch) ELSE Filled(cw, ch, Black)

-----------------------------------------------------------------------------
(* The refresh-driven scheduler.                                           *)

Ids(queue) == {r.id : r \in queue}

\* requestAnimationFrame returns a handle no live request and no stored
\* reference carries (the browser's handles only grow).
FreshId(queue, ref) ==
    CHOOSE n \in 1 .. (Cardinality(queue) + 2) : n \notin Ids(queue) \cup {ref}

\* The values applyDithering (render in App.tsx) closes over when the
\* component renders with gridSize g and threshold t: both are dependencies
\* of the callback (of the effect in App.tsx), so it is made anew for them.
StaleClosure(g, t) == <<4, <<0, 1>>>>

Closure(g, t) == <<g, t>>

\* requestAnimationFrame(cb), cb the callback of the render with gridSize g
\* and threshold t.
RequestFrame(queue, id, g, t) ==
    queue \cup {[id |-> id, gridSize |-> Closure(g, t)[1], threshold |-> Closure(g, t)[2]]}

\* cancelAnimationFrame(id).
CancelFrameKeeps(queue, id) == queue

CancelFrame(queue, id) == {r \in queue : r.id # id}

\* "if (animationFrameRef.current) cancelAnimationFrame(animationFrameRef.current)"
CancelRef(queue, ref) == IF ref # 0 THEN CancelFrame(queue, ref) ELSE queue

\* The cleanup of the dithering effect, run when its dependencies change
\* and on unmount: present whenever the effect's last run returned one.
DitherEffectCleanupLeaks(queue, ref, registered) == queue

DitherEffectCleanup(queue, ref, registered) ==
    IF registered THEN CancelRef(queue, ref) ELSE queue

\* Whether the dithering effect schedules a tick when it runs: App.tsx
\* returns early without a 2-D context, the other variants always do.
EffectSchedules(v, ctx) == UsesCallback(v) \/ ctx

\* The cleanup of the camera effect cancels the pending frame too in
\* App.tsx and in the second variant of part_000.
CameraCleanupCancels(v) == v \in {"App", "P0B"}

-----------------------------------------------------------------------------
(* Initial state: the component is mounted, both effects have run once.    *)

NoPass == [kind |-> "none", frame |-> NoFrame]

NoDownload == [taken |-> FALSE, image |-> Blank(0, 0)]

\* Sizes the display can have: a square one and a narrower one.
DisplaySizes == {<<MaxSide, MaxSide>>, <<MaxSide - 1, MaxSide>>}

Init ==
    /\ variant \in Variants
    /\ ctx2d \in BOOLEAN
    /\ display \in DisplaySizes
    /\ mounted = TRUE
    /\ gridSize = 4
    /\ threshold = <<0, 1>>
    /\ rafQueue = IF EffectSchedules(variant, ctx2d)
                  THEN RequestFrame({}, 1, 4, <<0, 1>>) ELSE {}
    /\ animationFrameRef = IF EffectSchedules(variant, ctx2d) THEN 1 ELSE 0
    /\ ditherCleanup = EffectSchedules(variant, ctx2d)
    /\ canvas = Blank(DefaultCanvasWidth, DefaultCanvasHeight)
    /\ video = [srcObject |-> FALSE, videoWidth |-> 0, videoHeight |-> 0]
    /\ camera = "pending"
    /\ track = "none"
    /\ lastPass = NoPass
    /\ download = NoDownload

Hung == lastPass.kind = "hung"

-----------------------------------------------------------------------------
(* One display refresh: a scheduled callback fires.  It is applyDithering  *)
(* (render in App.tsx) with the gridSize and threshold of its closure.     *)

\* What a tick leaves in lastPass: how it ended and the frame it read.
\* frame is NoFrame when the pass read no frame: it did not complete, or
\* the video had no dimensions yet.
PassRecord(kind, f) ==
    [kind |-> kind,
     frame |-> IF kind # "done" \/ video.videoWidth = 0 THEN NoFrame ELSE f]

\* How the tick ends:
\*   "detached"  videoRef.current / canvasRef.current is null: return
\*   "noctx"     canvas.getContext('2d') is null: return
\*   "aborted"   tempCanvas.getContext('2d') is null: return
\*   "hung"      the cell loop never ends (gridSize <= 0)
\*   "done"      the pass completes and requests the next frame
TickOutcome(v, isMounted, ctx, tempCtx, cs) ==
    CASE UsesCallback(v) /\ ~isMounted -> "detached"
      [] UsesCallback(v) /\ ~ctx       -> "noctx"
      [] UsesCallback(v) /\ ~tempCtx   -> "aborted"
      [] cs <= 0                       -> "hung"
      [] OTHER                         -> "done"

\* "animationFrameRef.current = requestAnimationFrame(applyDithering)" is the
\* last statement of the pass: only a tick that completes its pass gets there.
ReschedulesAlways(kind) == TRUE

Reschedules(kind) == kind = "done"

applyDithering(req, f, tempCtx) ==
    LET out  == TickOutcome(variant, mounted, ctx2d, tempCtx, req.gridSize)
        size == SurfaceSize(display)
        rest == rafQueue \ {req}
        id   == FreshId(rest, animationFrameRef)
    IN  /\ lastPass' = PassRecord(out, f)
        /\ canvas' = CASE out \in {"detached", "noctx"} -> canvas
                       [] out \in {"aborted", "hung"} -> AbortedSurface(variant, size[1], size[2])
                       [] OTHER -> RenderPass(variant, f, video.videoWidth, video.videoHeight,
                                              size[1], size[2], req.gridSize, req.threshold)
        /\ rafQueue' = IF Reschedules(out)
                       THEN RequestFrame(rest, id, req.gridSize, req.threshold)
                       ELSE rest
        /\ animationFrameRef' = IF Reschedules(out) THEN id ELSE animationFrameRef
        /\ download' = NoDownload
        /\ UNCHANGED <<variant, mounted, ctx2d, display, gridSize, threshold,
                       ditherCleanup, video, camera, track>>

Tick ==
    /\ ~Hung
    /\ \E req \in rafQueue, f \in Frames, tempCtx \in BOOLEAN :
          applyDithering(req, f, tempCtx)

-----------------------------------------------------------------------------
(* Parameter writes.  setGridSize/setThreshold re-render the component;    *)
(* when a value changed, the dithering effect's dependencies changed: its  *)
(* cleanup runs, then the effect runs again with the new closure.          *)

SetParameters(g, t) ==
    LET changed == <<g, t>> # <<gridSize, threshold>>
        cleaned == DitherEffectCleanup(rafQueue, animationFrameRef, ditherCleanup)
        again   == EffectSchedules(variant, ctx2d)
        id      == FreshId(cleaned, animationFrameRef)
    IN  /\ gridSize' = g
        /\ threshold' = t
        /\ rafQueue' = IF ~changed THEN rafQueue
                       ELSE IF again THEN RequestFrame(cleaned, id, g, t) ELSE cleaned
        /\ animationFrameRef' = IF changed /\ again THEN id ELSE animationFrameRef
        /\ ditherCleanup' = IF changed THEN again ELSE ditherCleanup
        /\ download' = NoDownload
        /\ UNCHANGED <<variant, mounted, ctx2d, display, canvas, video, camera,
                       track, lastPass>>

\* <input type="range" min="2" max="16">: the stops the model moves the
\* slider to (both ends, the default, and the sizes that divide or exceed
\* the model's displays differently).
GridSizeStops == {2, 3, 4, 5, 16}

\* <input type="range" min="-1" max="1" step="0.1">; App.tsx has
\* min="-0.5" max="0.5" step="0.05".  The model moves the slider to its
\* ends and its centre.
ThresholdStops(v) ==
    IF v = "App" THEN {Rat(k, 20) : k \in {-10, 0, 10}}
    ELSE {Rat(k, 10) : k \in {-10, 0, 10}}

GridSizeSlider ==
    /\ mounted /\ ~Hung /\ ~UsesPointer(variant)
    /\ \E g \in GridSizeStops : g # gridSize /\ SetParameters(g, threshold)

ThresholdSlider ==
    /\ mounted /\ ~Hung /\ ~UsesPointer(variant)
    /\ \E t \in ThresholdStops(variant) : t # threshold /\ SetParameters(gridSize, t)

\* newThreshold = (x / rect.width) * 2 - 1
PointerThreshold(x, w) == Rat(2 * x - w, w)

\* newGridSize = Math.floor(((rect.height - y) / rect.height) * 14 + 2)
PointerGridSize(y, h) == (((h - y) * 14) \div h) + 2

\* Math.max(-1, Math.min(1, newThreshold)): the second pointer variant only.
ClampThreshold(v, t) ==
    IF v = "P1B" THEN RatMax(<<-1, 1>>, RatMin(<<1, 1>>, t)) ELSE t

\* Math.max(2, Math.min(16, newGridSize)): the second pointer variant only.
ClampGridSize(v, g) ==
    IF v = "P1B" THEN IntMax(2, IntMin(16, g)) ELSE g

\* Pointer positions relative to the surface rectangle, e.clientX - rect.left
\* and e.clientY - rect.top, along a side of length len: both edges, the
\* middle, and PointerReach beyond each edge (a captured pointer keeps
\* reporting positions outside the rectangle).
PointerStops(len) == {0 - PointerReach, 0, len \div 2, len, len + PointerReach}

handlePointerMove ==
    /\ mounted /\ ~Hung /\ UsesPointer(variant)
    /\ \E x \in PointerStops(display[1]), y \in PointerStops(display[2]) :
          LET t == ClampThreshold(variant, PointerThreshold(x, display[1]))
              g == ClampGridSize(variant, PointerGridSize(y, display[2]))
          IN  <<g, t>> # <<gridSize, threshold>> /\ SetParameters(g, t)

-----------------------------------------------------------------------------
(* Capture.                                                                *)

\* canvas.toDataURL('image/png'): the PNG holds the raster's size and every
\* pixel as it is (PNG is lossless).
ToDataURLOfNewCanvas(c) == Blank(c.width, c.height)

ToDataURL(c) == [width |-> c.width, height |-> c.height, px |-> c.px]

\* link.href = canvas.toDataURL('image/png'); link.click()
handleCapture ==
    /\ mounted /\ ~Hung
    /\ download' = [taken |-> TRUE, image |-> ToDataURL(canvas)]
    /\ UNCHANGED <<variant, mounted, ctx2d, display, gridSize, threshold, rafQueue,
                   animationFrameRef, ditherCleanup, canvas, video, camera, track,
                   lastPass>>

-----------------------------------------------------------------------------
(* The camera.                                                             *)

\* Whether the stream is attached when getUserMedia resolves: App.tsx holds
\* the video element in a local, the others test videoRef.current, which is
\* null once the component is unmounted.
AttachesStream(v, isMounted) == v = "App" \/ isMounted

GetUserMediaResolves ==
    /\ ~Hung
    /\ camera = "pending"
    /\ camera' = "resolved"
    /\ track' = "live"
    /\ video' = [video EXCEPT !.srcObject = AttachesStream(variant, mounted)]
    /\ download' = NoDownload
    /\ UNCHANGED <<variant, mounted, ctx2d, display, gridSize, threshold, rafQueue,
                   animationFrameRef, ditherCleanup, canvas, lastPass>>

\* catch: console.error('Error accessing camera:', err)
GetUserMediaRejects ==
    /\ ~Hung
    /\ camera = "pending"
    /\ camera' = "rejected"
    /\ download' = NoDownload
    /\ UNCHANGED <<variant, mounted, ctx2d, display, gridSize, threshold, rafQueue,
                   animationFrameRef, ditherCleanup, canvas, video, track, lastPass>>

\* The video element learns the stream's native dimensions.
VideoMetadata ==
    /\ ~Hung
    /\ video.srcObject /\ track = "live" /\ video.videoWidth = 0
    /\ \E n \in NativeSizes :
          video' = [video EXCEPT !.videoWidth = n[1], !.videoHeight = n[2]]
    /\ download' = NoDownload
    /\ UNCHANGED <<variant, mounted, ctx2d, display, gridSize, threshold, rafQueue,
                   animationFrameRef, ditherCleanup, canvas, camera, track, lastPass>>

\* The window / the canvas rectangle changes size.
Resize ==
    /\ mounted /\ ~Hung
    /\ \E d \in DisplaySizes : d # display /\ display' = d
    /\ download' = NoDownload
    /\ UNCHANGED <<variant, mounted, ctx2d, gridSize, threshold, rafQueue,
                   animationFrameRef, ditherCleanup, canvas, video, camera, track,
                   lastPass>>

-----------------------------------------------------------------------------
(* Teardown: the component unmounts and both effects' cleanups run.        *)

\* The camera effect's cleanup stops the tracks of video.srcObject, if any.
StopTracks(attached, tr) == IF attached /\ tr = "live" THEN "stopped" ELSE tr

\* The frames left scheduled once both cleanups have run.
TeardownQueue(v, queue, ref, registered) ==
    LET q == IF CameraCleanupCancels(v) THEN CancelRef(queue, ref) ELSE queue
    IN  DitherEffectCleanup(q, ref, registered)

Unmount ==
    /\ mounted /\ ~Hung
    /\ mounted' = FALSE
    /\ track' = StopTracks(video.srcObject, track)
    /\ rafQueue' = TeardownQueue(variant, rafQueue, animationFrameRef, ditherCleanup)
    /\ download' = NoDownload
    /\ UNCHANGED <<variant, ctx2d, display, gridSize, threshold, animationFrameRef,
                   ditherCleanup, canvas, video, camera, lastPass>>

-----------------------------------------------------------------------------

Next ==
    \/ Tick
    \/ GridSizeSlider
    \/ ThresholdSlider
    \/ handlePointerMove
    \/ handleCapture
    \/ GetUserMediaResolves
    \/ GetUserMediaRejects
    \/ VideoMetadata
    \/ Resize
    \/ Unmount

Spec == Init /\ [][Next]_vars

-----------------------------------------------------------------------------
(* The pass on flat frames.  The component has been brought to a gridSize  *)
(* of the slider's range with the threshold at 0, the camera delivers      *)
(* frames, and the display holds five cells a side, the last at the        *)
(* surface's last pixel column and row; then one tick fires on a frame of  *)
(* one gray level.                                                         *)

\* Gray levels of the flat frames.
GrayLevels == {0, 16, 64, 128, 192, 255}

\* A display of four whole cells and one more pixel a side.
TilingDisplay(cs) == <<4 * cs + 1, 4 * cs + 1>>

InitTiling ==
    /\ variant \in Variants
    /\ ctx2d = TRUE
    /\ gridSize \in 2 .. 16
    /\ display = TilingDisplay(gridSize)
    /\ mounted = TRUE
    /\ threshold = <<0, 1>>
    /\ rafQueue = RequestFrame({}, 1, gridSize, <<0, 1>>)
    /\ animationFrameRef = 1
    /\ ditherCleanup = TRUE
    /\ canvas = Blank(DefaultCanvasWidth, DefaultCanvasHeight)
    /\ video \in {[srcObject |-> TRUE, videoWidth |-> n[1], videoHeight |-> n[2]] :
                      n \in NativeSizes}
    /\ camera = "resolved"
    /\ track = "live"
    /\ lastPass = NoPass
    /\ download = NoDownload

TickOnFlatFrame ==
    /\ lastPass.kind = "none"
    /\ \E req \in rafQueue, g \in GrayLevels : applyDithering(req, GrayFrame(g), TRUE)

NextTiling == TickOnFlatFrame

SpecTiling == InitTiling /\ [][NextTiling]_vars

-----------------------------------------------------------------------------
(* Properties.                                                             *)

\* A step in which a scheduled callback fired.
TickFired ==
    /\ mounted' = mounted
    /\ <<gridSize, threshold>>' = <<gridSize, threshold>>
    /\ rafQueue' # rafQueue

\* A step that wrote gridSize or threshold.
ParameterWritten == <<gridSize, threshold>>' # <<gridSize, threshold>>

\* Every pixel of the surface.
Pixels(c) == 0 .. (c.width * c.height - 1)

\* C1: once the effect cleanups have run, no tick is pending and no step
\* changes the output surface.
TeardownStopsRendering ==
    /\ [](~mounted => rafQueue = {})
    /\ [][~mounted => canvas' = canvas]_vars

\* C1 (witness): the component was torn down after ticks had rendered.
TornDownAfterRendering == ~mounted /\ lastPass.kind = "done"

\* C2 (as claimed): after a completed pass every pixel of the surface is
\* white or blue.
BinaryOutput ==
    lastPass.kind = "done" =>
        \A p \in Pixels(canvas) : PixelAt(canvas, p) \in {White, Blue}

\* C3 (as claimed): a tick that fires while the video has no dimensions
\* leaves the surface as it was and schedules the next tick.
NotReadyTickIsNoOp ==
    [][(TickFired /\ video.videoWidth = 0 /\ ctx2d /\ lastPass'.kind = "done")
          => (canvas' = canvas /\ rafQueue' # {})]_vars

\* C4 (as claimed): while the component is mounted, a tick is scheduled
\* after every tick that has returned, however its pass ended.
LoopSurvivesEveryTick ==
    (mounted /\ lastPass.kind \in {"noctx", "aborted", "done"}) => rafQueue # {}

\* C5 (as claimed): after teardown no track of the acquired stream is live.
StreamReleasedAfterTeardown == ~mounted => track # "live"

\* C6 (as claimed): gridSize is in 2..16 and threshold in [-1, 1].
ParametersInRange ==
    /\ gridSize \in 2 .. 16
    /\ ~RatLess(threshold, <<-1, 1>>)
    /\ ~RatLess(<<1, 1>>, threshold)

\* C7 (as claimed): once camera acquisition has failed no tick runs a pass
\* and no step changes the surface.
IdleAfterCameraFailure ==
    [][camera = "rejected" => (canvas' = canvas /\ lastPass'.kind # "done")]_vars

NeverSized == canvas = Blank(DefaultCanvasWidth, DefaultCanvasHeight)

\* What a capture does in every case: the image is the surface as it is,
\* and nothing but the download changes.
CaptureCopiesSurface ==
    /\ download'.image = canvas
    /\ UNCHANGED <<canvas, gridSize, threshold, rafQueue, animationFrameRef, lastPass>>

\* C9 (as claimed): a capture exports the surface as it is, changes nothing,
\* and a surface that a tick has sized is the output of a completed pass.
CaptureIsLastCompletedPass ==
    [][download'.taken =>
          /\ CaptureCopiesSurface
          /\ ~NeverSized => lastPass.kind = "done"]_vars

\* The surface is as the last tick left it: untouched while no tick has got
\* past the context checks; cleared (black, transparent in P0B) after a tick
\* that returned at a missing temporary context; and after a completed pass
\* wholly drawn, every pixel but the last white or blue.
SurfaceAsLastTickLeftIt ==
    CASE lastPass.kind \in {"none", "noctx", "detached"} -> NeverSized
      [] lastPass.kind \in {"aborted", "hung"} ->
            canvas = AbortedSurface(variant, canvas.width, canvas.height)
      [] OTHER ->
            /\ DOMAIN canvas.px = Pixels(canvas)
            /\ \A p \in Pixels(canvas) :
                  p # canvas.width * canvas.height - 1 => canvas.px[p] \in {White, Blue}

\* C9 (amended): a capture exports the surface as it is and changes nothing;
\* the surface changes in ticks only and is as the last tick left it.
CaptureExportsSurfaceAsLeft ==
    [][/\ download'.taken => (CaptureCopiesSurface /\ SurfaceAsLastTickLeftIt)
       /\ canvas' # canvas => TickFired]_vars

\* C9 (witness): a capture taken of a surface a completed pass has painted.
CapturedAfterPass ==
    /\ download.taken /\ lastPass.kind = "done" /\ lastPass.frame # NoFrame
    /\ download.image = canvas

\* The cell with cell coordinates (cx, cy) was painted light.
LightCell(cx, cy) ==
    PixelAt(canvas, (cy * gridSize) * canvas.width + cx * gridSize) = White

\* The cells, by cell coordinates, whose origin lies on the surface.
CellColumns == {cx \in 0 .. canvas.width : cx * gridSize < canvas.width}

CellRows == {cy \in 0 .. canvas.height : cy * gridSize < canvas.height}

\* The number of Bayer entries below the cutoff of gray level g.
EntriesBelow(g) == Cardinality({m \in 0 .. 15 : 255 * m < 16 * g})

\* C10 (as claimed): after a pass over a flat frame with threshold 0, every
\* region of 4 by 4 adjacent cells holds as many light cells as there are
\* Bayer entries below the frame's cutoff.
BayerTilingCount ==
    (lastPass.kind = "done" /\ lastPass.frame.kind = "gray" /\ threshold = <<0, 1>>) =>
        \A cx \in CellColumns, cy \in CellRows :
            (cx + 3 \in CellColumns /\ cy + 3 \in CellRows) =>
                Cardinality({c \in (cx .. cx + 3) \X (cy .. cy + 3) : LightCell(c[1], c[2])})
                    = EntriesBelow(lastPass.frame.level)

\* The cell with cell coordinates (cx, cy) was painted dark.
DarkCell(cx, cy) ==
    PixelAt(canvas, (cy * gridSize) * canvas.width + cx * gridSize) = Blue

\* C11 (as claimed): after a pass over the flat frame of gray level 128 with
\* threshold 0, white cells and blue cells both occur, and the cell at
\* origin (x, y) is white exactly when the Bayer entry at (y mod 4, x mod 4)
\* is one of 0 .. 7.
MidGrayIsMixed ==
    (lastPass.kind = "done" /\ lastPass.frame = GrayFrame(128) /\ threshold = <<0, 1>>) =>
        /\ \E cx \in CellColumns, cy \in CellRows : LightCell(cx, cy)
        /\ \E cx \in CellColumns, cy \in CellRows : DarkCell(cx, cy)
        /\ \A cx \in CellColumns, cy \in CellRows :
              LightCell(cx, cy) <=> BayerValue(cx * gridSize, cy * gridSize) \in 0 .. 7

-----------------------------------------------------------------------------
(* The cell loop on a short buffer.  The component renders with a gridSize *)
(* and a threshold of the sliders' ranges and the camera delivers frames;  *)
(* one tick fires whose pixel buffer holds fewer pixels than the surface.  *)

\* Surface of the short-buffer passes.
TruncatedDisplay == <<MaxSide, MaxSide - 1>>

\* A flat frame of gray level g of which the pass's buffer holds the first n
\* pixels only.
TruncatedFrame(g, n) == [kind |-> "gray", level |-> g, length |-> n]

InitTruncated ==
    /\ variant \in Variants
    /\ ctx2d = TRUE
    /\ gridSize \in {2, 3, 4}
    /\ display = TruncatedDisplay
    /\ mounted = TRUE
    /\ threshold \in {<<-1, 1>>, <<0, 1>>, <<1, 2>>}
    /\ rafQueue = RequestFrame({}, 1, gridSize, threshold)
    /\ animationFrameRef = 1
    /\ ditherCleanup = TRUE
    /\ canvas = Blank(DefaultCanvasWidth, DefaultCanvasHeight)
    /\ video \in {[srcObject |-> TRUE, videoWidth |-> n[1], videoHeight |-> n[2]] :
                      n \in NativeSizes}
    /\ camera = "resolved"
    /\ track = "live"
    /\ lastPass = NoPass
    /\ download = NoDownload

\* applyDithering with both contexts present, its buffer `data` holding the
\* first n pixels of the drawn frame.
TickOnTruncatedBuffer ==
    /\ lastPass.kind = "none"
    /\ \E req \in rafQueue, g \in {0, 255}, n \in 0 .. (SurfaceSize(display)[1] * SurfaceSize(display)[2] - 1) :
          LET size  == SurfaceSize(display)
              drawn == DrawnFrame(GrayFrame(g), video.videoWidth, video.videoHeight,
                                  size[1], size[2])
              rest  == rafQueue \ {req}
              id    == FreshId(rest, animationFrameRef)
          IN  /\ lastPass' = [kind |-> "done", frame |-> TruncatedFrame(g, n)]
              /\ canvas' = [width |-> size[1], height |-> size[2],
                            px |-> DitherCellsOver(variant,
                                       BaseRaster(variant, drawn, size[1], size[2]),
                                       drawn, n, size[1], size[2],
                                       req.gridSize, req.threshold)]
              /\ rafQueue' = RequestFrame(rest, id, req.gridSize, req.threshold)
              /\ animationFrameRef' = id
              /\ download' = NoDownload
              /\ UNCHANGED <<variant, mounted, ctx2d, display, gridSize, threshold,
                             ditherCleanup, video, camera, track>>

NextTruncated == TickOnTruncatedBuffer

SpecTruncated == InitTruncated /\ [][NextTruncated]_vars

ClampedPointerThreshold(x, w) ==
    LET t == Rat(2 * x - w, w)
    IN  IF RatLess(t, <<-1, 1>>) THEN <<-1, 1>>
        ELSE IF RatLess(<<1, 1>>, t) THEN <<1, 1>> ELSE t

ClampedPointerGridSize(y, h) ==
    LET g == (((h - y) * 14) \div h) + 2
    IN  IF g < 2 THEN 2 ELSE IF g > 16 THEN 16 ELSE g

\* C13 (as claimed): every pointer gesture stores the clamped values of the
\* two formulas for some pointer position; the rectangle's edges give
\* threshold -1 and 1 and cellSize 16 and 2; and cellSize never grows with y.
PointerMappingClamped ==
    [][(UsesPointer(variant) /\ ParameterWritten) =>
          /\ \E x \in PointerStops(display[1]), y \in PointerStops(display[2]) :
                /\ threshold' = ClampedPointerThreshold(x, display[1])
                /\ gridSize' = ClampedPointerGridSize(y, display[2])
          /\ ClampThreshold(variant, PointerThreshold(0, display[1])) = <<-1, 1>>
          /\ ClampThreshold(variant, PointerThreshold(display[1], display[1])) = <<1, 1>>
          /\ ClampGridSize(variant, PointerGridSize(0, display[2])) = 16
          /\ ClampGridSize(variant, PointerGridSize(display[2], display[2])) = 2
          /\ \A y1, y2 \in (0 - PointerReach) .. (display[2] + PointerReach) :
                y1 <= y2 => ClampGridSize(variant, PointerGridSize(y1, display[2]))
                               >= ClampGridSize(variant, PointerGridSize(y2, display[2]))]_vars

\* The same, in the variant whose handler clamps.
PointerMappingClampedWhereClamped ==
    [][(variant = "P1B" /\ ParameterWritten) =>
          \E x \in PointerStops(display[1]), y \in PointerStops(display[2]) :
                /\ threshold' = ClampedPointerThreshold(x, display[1])
                /\ gridSize' = ClampedPointerGridSize(y, display[2])]_vars

-----------------------------------------------------------------------------
(* The scale computation in the code's arithmetic.  A JavaScript number is *)
(* an IEEE 754 double: a positive one is [e, m], m its MantissaBits        *)
(* significand bits, the first of them 1, and its value is 1.m[2]m[3]...   *)
(* times 2^e.  Every operation rounds its exact result to the nearest      *)
(* double, ties to the even significand.                                   *)

MantissaBits == 53

\* The arithmetic below works on groups of LimbBits binary digits.
LimbBits == 13

RECURSIVE BitsOf(_)
\* The binary digits of the natural n, most significant first; <<>> for 0.
BitsOf(n) == IF n = 0 THEN <<>> ELSE BitsOf(n \div 2) \o <<n % 2>>

Zeros(n) == [i \in 1 .. n |-> 0]

RECURSIVE TimesPow2(_, _)
TimesPow2(n, k) == IF k = 0 THEN n ELSE TimesPow2(2 * n, k - 1)

\* Digit i (1 is the most significant) of the group of LimbBits digits `limb`.
LimbDigit(limb, i) == (limb \div TimesPow2(1, LimbBits - i)) % 2

\* The digits of a sequence of groups.
DigitsOfLimbs(limbs) ==
    [i \in 1 .. (LimbBits * Len(limbs)) |->
        LimbDigit(limbs[((i - 1) \div LimbBits) + 1], ((i - 1) % LimbBits) + 1)]

RECURSIVE LimbOfDigits(_, _, _)
\* The value of the n digits of `bits` that end at position last; positions
\* before the first hold 0.
LimbOfDigits(bits, last, n) ==
    IF n = 0 THEN 0
    ELSE 2 * LimbOfDigits(bits, last - 1, n - 1) + (IF last >= 1 THEN bits[last] ELSE 0)

\* The digits of the number `bits` plus one (one digit longer on carry out).
Increment(bits) ==
    LET zeroAt == {i \in 1 .. Len(bits) : bits[i] = 0}
        z      == IF zeroAt = {} THEN 0 ELSE CHOOSE i \in zeroAt : \A k \in zeroAt : k <= i
    IN  IF z = 0 THEN <<1>> \o Zeros(Len(bits))
        ELSE [i \in 1 .. Len(bits) |-> IF i < z THEN bits[i] ELSE IF i = z THEN 1 ELSE 0]

\* The double nearest to the exact value whose digits are `bits` (first
\* digit 1, at least MantissaBits + 1 of them) followed, when sticky, by
\* further non-zero digits; e is the exponent of the first digit.
RoundToDouble(bits, sticky, e) ==
    LET keep == SubSeq(bits, 1, MantissaBits)
        more == \E i \in (MantissaBits + 2) .. Len(bits) : bits[i] = 1
        up   == bits[MantissaBits + 1] = 1 /\ (sticky \/ more \/ keep[MantissaBits] = 1)
        inc  == Increment(keep)
    IN  IF ~up THEN [e |-> e, m |-> keep]
        ELSE IF Len(inc) > MantissaBits THEN [e |-> e + 1, m |-> SubSeq(inc, 1, MantissaBits)]
        ELSE [e |-> e, m |-> inc]

\* The integer a >= 1 as a double (exact below 2^53).
DoubleOfInt(a) ==
    LET b == BitsOf(a) IN [e |-> Len(b) - 1, m |-> b \o Zeros(MantissaBits - Len(b))]

RECURSIVE LongDivision(_, _, _)
\* The first n groups of digits after the point of r / den, r < den, and
\* the remainder.
LongDivision(r, den, n) ==
    IF n = 0 THEN [limbs |-> <<>>, rem |-> r]
    ELSE LET shifted == TimesPow2(r, LimbBits)
             rest    == LongDivision(shifted % den, den, n - 1)
         IN  [limbs |-> <<shifted \div den>> \o rest.limbs, rem |-> rest.rem]

\* a / b for integers a, b >= 1.
DoubleDiv(a, b) ==
    LET la  == Len(BitsOf(a))
        lb  == Len(BitsOf(b))
        \* align the operands' first digits, then make the quotient >= 1
        a1  == IF la < lb THEN TimesPow2(a, lb - la) ELSE a
        b1  == IF la > lb THEN TimesPow2(b, la - lb) ELSE b
        low == a1 < b1
        num == IF low THEN 2 * a1 ELSE a1
        e   == (la - lb) - (IF low THEN 1 ELSE 0)
        q   == LongDivision(num - b1, b1, (MantissaBits \div LimbBits) + 1)
    IN  RoundToDouble(<<1>> \o DigitsOfLimbs(q.limbs), q.rem # 0, e)

RECURSIVE TimesSmall(_, _, _, _)
\* The groups of n times the number whose groups are limbs[1 .. k], plus
\* carry.
TimesSmall(limbs, k, n, carry) ==
    IF k = 0 THEN <<carry>>
    ELSE LET v == n * limbs[k] + carry
         IN  TimesSmall(limbs, k - 1, n, v \div TimesPow2(1, LimbBits))
                \o <<v % TimesPow2(1, LimbBits)>>

\* n * f for an integer n, 1 <= n < 2^LimbBits, and a double f.
DoubleTimesInt(n, f) ==
    LET count == (MantissaBits \div LimbBits) + 1
        limbs == [k \in 1 .. count |->
                     LimbOfDigits(f.m, MantissaBits - LimbBits * (count - k), LimbBits)]
        all   == DigitsOfLimbs(TimesSmall(limbs, count, n, 0))
        first == CHOOSE i \in 1 .. Len(all) : all[i] = 1 /\ \A k \in 1 .. (i - 1) : all[k] = 0
        prod  == SubSeq(all, first, Len(all))
        e     == f.e + (Len(prod) - MantissaBits)
    IN  IF Len(prod) = MantissaBits THEN [e |-> e, m |-> prod]
        ELSE RoundToDouble(prod, FALSE, e)

\* f < g for positive doubles.
DoubleLess(f, g) ==
    \/ f.e < g.e
    \/ /\ f.e = g.e
       /\ \E i \in 1 .. MantissaBits :
             /\ f.m[i] < g.m[i]
             /\ \A j \in 1 .. (i - 1) : f.m[j] = g.m[j]

\* Math.max(f, g)
DoubleMax(f, g) == IF DoubleLess(f, g) THEN g ELSE f

\* scale = Math.max(canvas.width / video.videoWidth, canvas.height / video.videoHeight)
Scale(cw, ch, vw, vh) == DoubleMax(DoubleDiv(cw, vw), DoubleDiv(ch, vh))

\* scaledWidth = video.videoWidth * scale (scaledHeight likewise)
Scaled(v, scale) == DoubleTimesInt(v, scale)

\* The sign of (canvas.width - scaledWidth) / 2: the subtraction of two
\* doubles and the halving keep the sign of the exact difference.
OffsetSign(c, scaled) ==
    IF DoubleLess(DoubleOfInt(c), scaled) THEN -1
    ELSE IF DoubleLess(scaled, DoubleOfInt(c)) THEN 1 ELSE 0

-----------------------------------------------------------------------------
(* The pass on small surfaces and a range of native sizes: the component   *)
(* is mounted with its defaults, the camera delivers frames, and one tick  *)
(* fires.                                                                  *)

\* Surfaces of one to MaxCoverSide pixels a side.
MaxCoverSide == 3

\* Native sizes of the camera.
CoverNativeSizes == {<<49, 49>>, <<4, 3>>, <<3, 7>>}

InitCoverFit ==
    /\ variant \in Variants
    /\ ctx2d = TRUE
    /\ gridSize = 4
    /\ display \in (1 .. MaxCoverSide) \X (1 .. MaxCoverSide)
    /\ mounted = TRUE
    /\ threshold = <<0, 1>>
    /\ rafQueue = RequestFrame({}, 1, gridSize, threshold)
    /\ animationFrameRef = 1
    /\ ditherCleanup = TRUE
    /\ canvas = Blank(DefaultCanvasWidth, DefaultCanvasHeight)
    /\ video \in {[srcObject |-> TRUE, videoWidth |-> n[1], videoHeight |-> n[2]] :
                      n \in CoverNativeSizes}
    /\ camera = "resolved"
    /\ track = "live"
    /\ lastPass = NoPass
    /\ download = NoDownload

NextCoverFit == TickOnFlatFrame

SpecCoverFit == InitCoverFit /\ [][NextCoverFit]_vars

\* C14 (as claimed): in a pass over a frame of native size greater than 0,
\* the scaled width and height are at least the surface's, one of them
\* equal to it; so neither centring offset is positive and one of them is 0.
CoverFitInvariant ==
    (lastPass.kind = "done" /\ video.videoWidth > 0 /\ video.videoHeight > 0) =>
        LET scale == Scale(canvas.width, canvas.height, video.videoWidth, video.videoHeight)
            sw    == Scaled(video.videoWidth, scale)
            sh    == Scaled(video.videoHeight, scale)
            x     == OffsetSign(canvas.width, sw)
            y     == OffsetSign(canvas.height, sh)
        IN  /\ ~DoubleLess(sw, DoubleOfInt(canvas.width))
            /\ ~DoubleLess(sh, DoubleOfInt(canvas.height))
            /\ x <= 0 /\ y <= 0
            /\ x = 0 \/ y = 0

\* ((R + G + B) / 3) / 255 > 0.5 + (m / 16 - 0.5) + threshold for the sample
\* rgb, the Bayer entry m and the threshold n / d: both sides times 765 * 16 * d.
RuleSaysWhite(rgb, m, t) ==
    16 * t[2] * (rgb[1] + rgb[2] + rgb[3]) > 765 * (m * t[2] + 16 * t[1])

\* C15 (as claimed): a tick that completes its pass over a frame leaves
\* every pixel of every cell white when the rule holds for the sample at the
\* cell's origin and the Bayer entry at the origin's pixel coordinates, and
\* blue otherwise.
EveryCellFollowsRule ==
    [][(TickFired /\ lastPass'.kind = "done" /\ video.videoWidth > 0) =>
          LET cw    == canvas'.width
              ch    == canvas'.height
              frame == DrawnFrame(lastPass'.frame, video.videoWidth, video.videoHeight, cw, ch)
          IN  \A x \in 0 .. (cw - 1), y \in 0 .. (ch - 1) :
                 LET ox == x - (x % gridSize)
                     oy == y - (y % gridSize)
                 IN  PixelAt(canvas', y * cw + x) =
                        IF RuleSaysWhite(frame[oy * cw + ox],
                                         bayerMatrix[(oy % 4) + 1][(ox % 4) + 1], threshold)
                        THEN White ELSE Blue]_vars

\* The same in the variant whose cell loop has no guard.
EveryCellFollowsRuleUnguarded ==
    [][(TickFired /\ lastPass'.kind = "done" /\ video.videoWidth > 0 /\ ~HasGuard(variant)) =>
          LET cw    == canvas'.width
              ch    == canvas'.height
              frame == DrawnFrame(lastPass'.frame, video.videoWidth, video.videoHeight, cw, ch)
          IN  \A x \in 0 .. (cw - 1), y \in 0 .. (ch - 1) :
                 LET ox == x - (x % gridSize)
                     oy == y - (y % gridSize)
                 IN  PixelAt(canvas', y * cw + x) =
                        IF RuleSaysWhite(frame[oy * cw + ox],
                                         bayerMatrix[(oy % 4) + 1][(ox % 4) + 1], threshold)
                        THEN White ELSE Blue]_vars

-----------------------------------------------------------------------------
(* The divisions and the indexed reads of a pass.                          *)

\* The divisors of a pass that gets as far as the scale computation:
\* canvas.width / video.videoWidth, canvas.height / video.videoHeight,
\* (canvas.width - scaledWidth) / 2, and in the cell loop
\* (r + g + b) / 3, gray / 255 and bayerValue / 16.
PassDivisors(vw, vh) == {vw, vh, 2, 3, 255, 16}

\* The ticks that get as far as the scale computation.
ComputesScale(kind) == kind \in {"aborted", "hung", "done"}

\* The origins of the cells whose samples the loop reads.
SampledOrigins(v, n, cw, ch, cs) ==
    {o \in (0 .. (cw - 1)) \X (0 .. (ch - 1)) :
        /\ o[1] % cs = 0 /\ o[2] % cs = 0
        /\ ~(HasGuard(v) /\ GuardSkips((o[2] * cw + o[1]) * 4, n * 4))}

\* The indexes at which the loop reads the buffer: data[i], data[i + 1],
\* data[i + 2] for every sampled cell.
BufferReads(v, n, cw, ch, cs) ==
    UNION {{(o[2] * cw + o[1]) * 4 + c : c \in 0 .. 2} : o \in SampledOrigins(v, n, cw, ch, cs)}

\* The row and column at which the loop reads the matrix.
MatrixReads(v, n, cw, ch, cs) ==
    {<<o[2] % 4, o[1] % 4>> : o \in SampledOrigins(v, n, cw, ch, cs)}

\* A tick's pass divides by nothing that is 0 and reads the buffer and the
\* matrix inside their bounds.
PassIsSafe ==
    /\ 0 \notin PassDivisors(video.videoWidth, video.videoHeight)
    /\ lastPass'.kind = "done" =>
          LET cw == canvas'.width
              ch == canvas'.height
          IN  /\ BufferReads(variant, cw * ch, cw, ch, gridSize) \subseteq 0 .. (cw * ch * 4 - 1)
              /\ MatrixReads(variant, cw * ch, cw, ch, gridSize) \subseteq (0 .. 3) \X (0 .. 3)

\* C16 (as claimed): with gridSize in 2 .. 16 and threshold in [-1, 1], every
\* pass a tick executes divides by nothing that is 0 and reads the buffer
\* and the matrix inside their bounds.
NoDivisionByZeroNoOutOfRange ==
    [][(TickFired /\ ComputesScale(lastPass'.kind) /\ ParametersInRange) => PassIsSafe]_vars

\* The same for the passes over a video that has dimensions.
NoOutOfRangeOnceReady ==
    [][(TickFired /\ ComputesScale(lastPass'.kind) /\ ParametersInRange
          /\ video.videoWidth > 0) => PassIsSafe]_vars

\* C17 (as claimed): no tick's cell loop runs for ever, whatever gridSize an
\* input handler has stored.
EveryPassTerminates == ~Hung

\* C18: at most one tick is scheduled, and a scheduled tick's handle is the
\* one the frame-id ref holds.
OneTickScheduledAndReferenced ==
    /\ Cardinality(rafQueue) <= 1
    /\ \A r \in rafQueue : r.id = animationFrameRef

\* C18 (witness): the last tick returned early and scheduled nothing, a
\* parameter write has since re-run the effect, and the tick it scheduled
\* is the one the ref holds.
RescheduledAfterAbortAndWrite ==
    /\ lastPass.kind = "aborted"
    /\ <<gridSize, threshold>> # <<4, <<0, 1>>>>
    /\ rafQueue # {} /\ \A r \in rafQueue : r.id = animationFrameRef

\* C19: a tick that finds the canvas or a 2-D context missing paints no
\* cell (the surface is as it was, or holds no white and no blue pixel) and
\* leaves no tick scheduled.
MissingSurfaceEndsLoop ==
    [][(TickFired /\ lastPass'.kind \in {"detached", "noctx", "aborted"}) =>
          /\ rafQueue' = {}
          /\ \/ canvas' = canvas
             \/ \A p \in Pixels(canvas') : PixelAt(canvas', p) \notin {White, Blue}]_vars

\* C19 (witness): a tick found the temporary context missing and returned
\* with the surface cleared; the component is still mounted and nothing is
\* scheduled.
StoppedAtMissingContext ==
    /\ mounted /\ lastPass.kind = "aborted" /\ rafQueue = {}
    /\ canvas = AbortedSurface(variant, canvas.width, canvas.height)

\* C20 (as claimed): a tick that completes its pass leaves the surface that
\* the pass of every variant computes from the same frame, native size,
\* surface size, gridSize and threshold.
VariantsRenderAlike ==
    [][(TickFired /\ lastPass'.kind = "done") =>
          \A v \in Variants :
              canvas' = RenderPass(v, lastPass'.frame, video.videoWidth, video.videoHeight,
                                   canvas'.width, canvas'.height, gridSize, threshold)]_vars

\* The same on surfaces whose last pixel is not the origin of a cell.
VariantsRenderAlikeOffLastPixel ==
    [][(TickFired /\ lastPass'.kind = "done"
          /\ ((canvas'.width - 1) % gridSize # 0 \/ (canvas'.height - 1) % gridSize # 0)) =>
          \A v \in Variants :
              canvas' = RenderPass(v, lastPass'.frame, video.videoWidth, video.videoHeight,
                                   canvas'.width, canvas'.height, gridSize, threshold)]_vars

====
